---- MODULE Spec2Model ----
(***************************************************************************)
(* Model of the OS resource optimizer: MemoryManager, ProcessManager,      *)
(* Process, Scheduler, HardwareSimulator and the OSSimulator loop.         *)
(*                                                                         *)
(* Process pointers are modelled by the process id (ids are unique among   *)
(* the live entries of the registry); 0 stands for nullptr.                *)
(* MemoryManager::process_allocations_ and page_table_ are written but     *)
(* never read by any operation that returns or decides something, and are  *)
(* left out of the state.                                                  *)
(***************************************************************************)
EXTENDS Integers, Sequences, FiniteSets, TLC

(***************************************************************************)
(* Bounds of the model                                                     *)
(***************************************************************************)
TotalMemory == 5      \* total_memory_ handed to the MemoryManager constructor
PageSize == 2         \* page_size_ handed to the MemoryManager constructor
MaxPid == 2           \* process ids used by callers of allocate/deallocate
MaxProcs == 2         \* registry entries created in one run
MaxQueue == 3         \* entries held by the ready queue
MaxHistory == 4       \* events held by the schedule history
MaxSimHistory == 6    \* events held by the schedule history in a simulator run
MaxSwitches == 1      \* context switches counted
MaxArrival == 1       \* arrival times are 0..MaxArrival
MaxBurstSteps == 2    \* burst times are multiples of the time step, 0 included
MaxMem == 1           \* memory requirements are 0..MaxMem
SimulationTime == 20  \* simulation_time handed to run_simulation_iteration
MaxTimestamp == 0     \* timestamps handed to simulate_context_switch
MaxInterrupts == 3    \* interrupts scheduled in one run of the HardwareSimulator
MaxInterruptTime == 2 \* interrupt timestamps and process_interrupts times are 0..MaxInterruptTime
MaxOverhead == 4      \* total overhead up to which the HardwareSimulator is driven further
MaxPriorityRank == 2  \* priorities drawn for new processes: the lowest MaxPriorityRank levels

(***************************************************************************)
(* State                                                                   *)
(***************************************************************************)
VARIABLES
    memory_blocks,      \* MemoryManager::memory_blocks_
    blocks_capacity,    \* the greatest size memory_blocks_ has had: its capacity() is
                        \* at least this
    strategy,           \* MemoryManager::strategy_
    mm_call,            \* the last MemoryManager operation: its arguments and its result
    processes,          \* ProcessManager::processes_ (process_map_ indexes it by pid)
    next_pid,           \* ProcessManager::next_pid_
    algorithm,          \* Scheduler::algorithm_
    time_slice,         \* Scheduler::time_slice_
    ready_queue,        \* Scheduler::ready_queue_ (front first)
    schedule_history,   \* Scheduler::schedule_history_
    context_switches,   \* Scheduler::context_switches_
    sched_call,         \* the last registry/scheduler/process operation and its result
    state_changes,      \* the <<old, new>> state changes the last operation made
    switched,           \* set_algorithm changed the policy of a non-empty queue and only
                        \* get_next_process calls followed
    interrupt_queue,    \* HardwareSimulator::interrupt_queue_
    interrupt_history,  \* HardwareSimulator::interrupt_history_
    total_overhead,     \* HardwareSimulator::total_overhead_
    hw_call,            \* the last HardwareSimulator operation: its arguments and its result
    current_time,       \* current_time of run_simulation_iteration
    pc,                 \* where the OSSimulator is: "start", "idle" or "run"
    sim_call            \* what the last OSSimulator step did

memVars == <<memory_blocks, blocks_capacity, strategy, mm_call>>
regVars == <<processes, next_pid>>
schedVars == <<algorithm, time_slice, ready_queue, schedule_history, context_switches>>
obsVars == <<sched_call, state_changes, switched>>
hwVars == <<interrupt_queue, interrupt_history, total_overhead, hw_call>>
simVars == <<current_time, pc, sim_call>>
vars == <<memory_blocks, blocks_capacity, strategy, mm_call, processes, next_pid, algorithm, time_slice,
          ready_queue, schedule_history, context_switches, sched_call, state_changes,
          switched, interrupt_queue, interrupt_history, total_overhead, hw_call,
          current_time, pc, sim_call>>

AllocationStrategies == {"FIRST_FIT", "BEST_FIT", "WORST_FIT"}

NoIndex == 0          \* SIZE_MAX returned by the find_* functions (indices are 1-based here)
NoRoundTrip == [pre_allocated |-> -1]  \* deallocate did not follow allocate of the same pid and address

(***************************************************************************)
(* MemoryManager                                                           *)
(***************************************************************************)
MemoryBlock(addr, sz) ==
    [address |-> addr, size |-> sz, is_allocated |-> FALSE, process_id |-> 0]

initialize_memory == <<MemoryBlock(0, TotalMemory)>>

RECURSIVE SumSizes(_, _)
SumSizes(blocks, allocated) ==
    IF blocks = <<>> THEN 0
    ELSE (IF Head(blocks).is_allocated = allocated THEN Head(blocks).size ELSE 0)
         + SumSizes(Tail(blocks), allocated)

get_free_memory(blocks) == SumSizes(blocks, FALSE)

get_allocated_memory(blocks) == SumSizes(blocks, TRUE)

Fits(blocks, i, size) == ~blocks[i].is_allocated /\ blocks[i].size >= size

find_first_fit(blocks, size) ==
    IF \E i \in 1..Len(blocks) : Fits(blocks, i, size)
    THEN CHOOSE i \in 1..Len(blocks) :
            /\ Fits(blocks, i, size)
            /\ \A j \in 1..(i - 1) : ~Fits(blocks, j, size)
    ELSE NoIndex

\* find_best_fit with "<=" in the scan: the last of several equally small blocks
find_best_fit_last(blocks, size) ==
    IF \E i \in 1..Len(blocks) : Fits(blocks, i, size)
    THEN CHOOSE i \in 1..Len(blocks) :
            /\ Fits(blocks, i, size)
            /\ \A j \in 1..Len(blocks) : Fits(blocks, j, size) =>
                  \/ blocks[j].size > blocks[i].size
                  \/ (blocks[j].size = blocks[i].size /\ j <= i)
    ELSE NoIndex

\* strict "<" in the scan keeps the first of several equally small blocks
find_best_fit(blocks, size) ==
    IF \E i \in 1..Len(blocks) : Fits(blocks, i, size)
    THEN CHOOSE i \in 1..Len(blocks) :
            /\ Fits(blocks, i, size)
            /\ \A j \in 1..Len(blocks) : Fits(blocks, j, size) =>
                  \/ blocks[j].size > blocks[i].size
                  \/ (blocks[j].size = blocks[i].size /\ j >= i)
    ELSE NoIndex

\* strict ">" against worst_size = 0 keeps the first of several equally large blocks;
\* a fitting block has size >= size > 0, so it always beats the initial 0
find_worst_fit(blocks, size) ==
    IF \E i \in 1..Len(blocks) : Fits(blocks, i, size) /\ blocks[i].size > 0
    THEN CHOOSE i \in 1..Len(blocks) :
            /\ Fits(blocks, i, size) /\ blocks[i].size > 0
            /\ \A j \in 1..Len(blocks) : (Fits(blocks, j, size) /\ blocks[j].size > 0) =>
                  \/ blocks[j].size < blocks[i].size
                  \/ (blocks[j].size = blocks[i].size /\ j >= i)
    ELSE NoIndex

InsertAt(s, i, e) == SubSeq(s, 1, i) \o <<e>> \o SubSeq(s, i + 1, Len(s))

RemoveAt(s, i) == SubSeq(s, 1, i - 1) \o SubSeq(s, i + 1, Len(s))

\* split_block with the threshold off by one: a remainder of exactly page_size is
\* not split off
split_block_strict(blocks, block_index, size) ==
    LET block == blocks[block_index]
        remaining_size == block.size - size
    IN  IF remaining_size <= PageSize
        THEN blocks
        ELSE InsertAt([blocks EXCEPT ![block_index].size = size],
                      block_index,
                      MemoryBlock(block.address + size, remaining_size))

\* split_block: the block at block_index is already marked allocated
split_block(blocks, block_index, size) ==
    LET block == blocks[block_index]
        remaining_size == block.size - size
    IN  IF remaining_size < PageSize
        THEN blocks
        ELSE InsertAt([blocks EXCEPT ![block_index].size = size],
                      block_index,
                      MemoryBlock(block.address + size, remaining_size))

\* the merge loop stepping on after a merge: a third free block in a row is missed
RECURSIVE CoalesceFromOnce(_, _)
CoalesceFromOnce(blocks, i) ==
    IF i >= Len(blocks) THEN blocks
    ELSE IF ~blocks[i].is_allocated /\ ~blocks[i + 1].is_allocated
         THEN CoalesceFromOnce(RemoveAt([blocks EXCEPT ![i].size = @ + blocks[i + 1].size],
                                        i + 1), i + 1)
         ELSE CoalesceFromOnce(blocks, i + 1)

RECURSIVE CoalesceFrom(_, _)
CoalesceFrom(blocks, i) ==
    IF i >= Len(blocks) THEN blocks
    ELSE IF ~blocks[i].is_allocated /\ ~blocks[i + 1].is_allocated
         THEN CoalesceFrom(RemoveAt([blocks EXCEPT ![i].size = @ + blocks[i + 1].size],
                                    i + 1), i)
         ELSE CoalesceFrom(blocks, i + 1)

coalesce_blocks(blocks) == CoalesceFrom(blocks, 1)

\* allocate without the size = 0 check
allocate_any_size(blocks, strat, process_id, size) ==
    IF size > TotalMemory
    THEN [blocks |-> blocks, ret |-> 0, index |-> NoIndex, inserted |-> FALSE]
    ELSE LET block_index ==
                 CASE strat = "FIRST_FIT" -> find_first_fit(blocks, size)
                   [] strat = "BEST_FIT"  -> find_best_fit(blocks, size)
                   [] strat = "WORST_FIT" -> find_worst_fit(blocks, size)
         IN  IF block_index = NoIndex
             THEN [blocks |-> blocks, ret |-> 0, index |-> NoIndex, inserted |-> FALSE]
             ELSE LET marked == [blocks EXCEPT ![block_index].is_allocated = TRUE,
                                               ![block_index].process_id = process_id]
                      done == IF marked[block_index].size > size
                              THEN split_block(marked, block_index, size)
                              ELSE marked
                  IN  [blocks |-> done, ret |-> blocks[block_index].address,
                       index |-> block_index, inserted |-> (Len(done) > Len(blocks))]

\* allocate: the new block list, the address of the chosen block (0 also means
\* failure), the chosen index, and whether split_block inserted a block
allocate(blocks, strat, process_id, size) ==
    IF size = 0 \/ size > TotalMemory
    THEN [blocks |-> blocks, ret |-> 0, index |-> NoIndex, inserted |-> FALSE]
    ELSE LET block_index ==
                 CASE strat = "FIRST_FIT" -> find_first_fit(blocks, size)
                   [] strat = "BEST_FIT"  -> find_best_fit(blocks, size)
                   [] strat = "WORST_FIT" -> find_worst_fit(blocks, size)
         IN  IF block_index = NoIndex
             THEN [blocks |-> blocks, ret |-> 0, index |-> NoIndex, inserted |-> FALSE]
             ELSE LET marked == [blocks EXCEPT ![block_index].is_allocated = TRUE,
                                               ![block_index].process_id = process_id]
                      done == IF marked[block_index].size > size
                              THEN split_block(marked, block_index, size)
                              ELSE marked
                  IN  [blocks |-> done, ret |-> blocks[block_index].address,
                       index |-> block_index, inserted |-> (Len(done) > Len(blocks))]

\* deallocate that also compares the owner of the block with process_id
deallocate_owned(blocks, process_id, virtual_address) ==
    LET Match(i) == /\ blocks[i].address = virtual_address
                    /\ blocks[i].is_allocated
                    /\ blocks[i].process_id = process_id
    IN  IF ~\E i \in 1..Len(blocks) : Match(i)
        THEN [blocks |-> blocks, ret |-> FALSE]
        ELSE LET it == CHOOSE i \in 1..Len(blocks) :
                           Match(i) /\ \A j \in 1..(i - 1) : ~Match(j)
                 freed == [blocks EXCEPT ![it].is_allocated = FALSE,
                                         ![it].process_id = 0]
             IN  [blocks |-> coalesce_blocks(freed), ret |-> TRUE]

\* deallocate: std::find_if takes the first block with that address that is allocated;
\* the process id takes no part in the search
deallocate(blocks, process_id, virtual_address) ==
    LET Match(i) == blocks[i].address = virtual_address /\ blocks[i].is_allocated
    IN  IF ~\E i \in 1..Len(blocks) : Match(i)
        THEN [blocks |-> blocks, ret |-> FALSE]
        ELSE LET it == CHOOSE i \in 1..Len(blocks) :
                           Match(i) /\ \A j \in 1..(i - 1) : ~Match(j)
                 freed == [blocks EXCEPT ![it].is_allocated = FALSE,
                                         ![it].process_id = 0]
             IN  [blocks |-> coalesce_blocks(freed), ret |-> TRUE]

\* the copy loop of garbage_collect: blocks[i] is copied to write_index unchanged
\* (its address field included); returns the list, write_index and the bytes counted
RECURSIVE GcScan(_, _, _, _)
GcScan(blocks, i, write_index, compacted) ==
    IF i > Len(blocks)
    THEN [blocks |-> blocks, write_index |-> write_index, compacted |-> compacted]
    ELSE IF blocks[i].is_allocated
         THEN IF write_index # i
              THEN GcScan([blocks EXCEPT ![write_index] = blocks[i]], i + 1,
                          write_index + 1, compacted + blocks[i].size)
              ELSE GcScan(blocks, i + 1, write_index + 1, compacted)
         ELSE GcScan(blocks, i + 1, write_index, compacted)

\* write_index here is 1-based: the number of allocated blocks is write_index - 1
garbage_collect(blocks) ==
    LET scan == GcScan(blocks, 1, 1, 0)
        w == scan.write_index
    IN  IF w - 1 < Len(blocks)
        THEN LET free_start == IF w - 1 > 0
                               THEN scan.blocks[w - 1].address + scan.blocks[w - 1].size
                               ELSE 0
                 free_size == TotalMemory - free_start
             IN  [blocks |-> SubSeq(scan.blocks, 1, w - 1)
                               \o <<MemoryBlock(free_start, free_size)>>,
                  ret |-> scan.compacted]
        ELSE [blocks |-> scan.blocks, ret |-> scan.compacted]

LargestFree(blocks) ==
    LET sizes == {blocks[i].size : i \in {j \in 1..Len(blocks) : ~blocks[j].is_allocated}}
    IN  IF sizes = {} THEN 0 ELSE CHOOSE m \in sizes : \A s \in sizes : s <= m

\* get_fragmentation as the exact fraction num/den (den > 0)
get_fragmentation(blocks) ==
    LET total_free == get_free_memory(blocks)
        largest_free == LargestFree(blocks)
    IN  IF total_free = 0 THEN [num |-> 0, den |-> 1]
        ELSE IF largest_free = 0 THEN [num |-> 1, den |-> 1]
        ELSE [num |-> total_free - largest_free, den |-> total_free]

\* get_utilization as the exact fraction num/den
get_utilization(blocks) == [num |-> get_allocated_memory(blocks), den |-> TotalMemory]

FracLeq(a, b) == a.num * b.den <= b.num * a.den

(***************************************************************************)
(* MemoryManager operations as actions                                     *)
(***************************************************************************)
MemoryManagerInit ==
    /\ memory_blocks = initialize_memory
    /\ blocks_capacity = 1
    /\ strategy \in AllocationStrategies
    /\ mm_call = [op |-> "construct"]

\* what "return block.address" can read. allocate holds a reference to the chosen
\* block across split_block; an insert that grows the vector past its capacity moves
\* the blocks and leaves the reference dangling, and the read is then of freed
\* storage. The capacity is at least blocks_capacity; beyond that the growth policy
\* of the library decides. TotalMemory + 1 stands for every value that is no address.
ReturnedAddresses(r) ==
    IF r.inserted /\ Len(r.blocks) > blocks_capacity
    THEN 0..(TotalMemory + 1)
    ELSE {r.ret}

\* the call record keeps the allocated byte count and the fragmentation before the
\* call, and the index of the chosen block
Allocate(process_id, size) ==
    LET r == allocate(memory_blocks, strategy, process_id, size)
    IN  /\ memory_blocks' = r.blocks
        /\ blocks_capacity' = IF Len(r.blocks) > blocks_capacity THEN Len(r.blocks)
                              ELSE blocks_capacity
        /\ \E a \in ReturnedAddresses(r) :
              mm_call' = [op |-> "allocate", process_id |-> process_id, size |-> size,
                          ret |-> a, found |-> (r.index # NoIndex),
                          pre_allocated |-> get_allocated_memory(memory_blocks),
                          pre_fragmentation |-> get_fragmentation(memory_blocks),
                          index |-> r.index]
        /\ UNCHANGED <<strategy, regVars, schedVars, obsVars, hwVars, simVars>>

\* round_trip is filled in when this call is deallocate(pid, a) right after an
\* allocate(pid, N) that returned a
Deallocate(process_id, virtual_address) ==
    LET r == deallocate(memory_blocks, process_id, virtual_address)
    IN  /\ memory_blocks' = r.blocks
        /\ mm_call' = [op |-> "deallocate", process_id |-> process_id,
                       address |-> virtual_address, ret |-> r.ret,
                       round_trip |->
                           IF /\ mm_call.op = "allocate"
                              /\ mm_call.process_id = process_id
                              /\ mm_call.ret = virtual_address
                           THEN [pre_allocated |-> mm_call.pre_allocated,
                                 pre_fragmentation |-> mm_call.pre_fragmentation,
                                 found |-> mm_call.found]
                           ELSE NoRoundTrip]
        /\ UNCHANGED <<blocks_capacity, strategy, regVars, schedVars, obsVars, hwVars, simVars>>

\* the call record keeps the block list the collection started from
GarbageCollect ==
    LET r == garbage_collect(memory_blocks)
    IN  /\ memory_blocks' = r.blocks
        /\ mm_call' = [op |-> "garbage_collect", ret |-> r.ret, pre |-> memory_blocks]
        /\ UNCHANGED <<blocks_capacity, strategy, regVars, schedVars, obsVars, hwVars, simVars>>

MemReset ==
    /\ memory_blocks' = initialize_memory
    /\ mm_call' = [op |-> "reset"]
    /\ UNCHANGED <<blocks_capacity, strategy, regVars, schedVars, obsVars, hwVars, simVars>>

SetAllocationStrategy(s) ==
    /\ strategy' = s
    /\ mm_call' = [op |-> "set_allocation_strategy"]
    /\ UNCHANGED <<memory_blocks, blocks_capacity, regVars, schedVars, obsVars, hwVars, simVars>>

MemNext ==
    \/ \E p \in 1..MaxPid, n \in 0..(TotalMemory + 1) : Allocate(p, n)
    \/ \E p \in 1..MaxPid, a \in 0..TotalMemory : Deallocate(p, a)
    \/ GarbageCollect
    \/ MemReset
    \/ \E s \in AllocationStrategies : SetAllocationStrategy(s)

(***************************************************************************)
(* Process and ProcessManager                                              *)
(***************************************************************************)
ProcessStates == {"NEW", "READY", "RUNNING", "BLOCKED", "TERMINATED"}

LOW == 1
MEDIUM == 5
HIGH == 10
CRITICAL == 15
Priorities == {LOW, MEDIUM, HIGH, CRITICAL}
PriorityOrder == <<LOW, MEDIUM, HIGH, CRITICAL>>
PriorityInputs == {PriorityOrder[i] : i \in 1..MaxPriorityRank}

SchedulingAlgorithms == {"ROUND_ROBIN", "PRIORITY", "SHORTEST_JOB_FIRST"}

TimeStep == 10        \* time_step of the simulation loop
SliceBusy == 10       \* quantum the loop passes to execute when the queue is not empty
SliceIdle == 50       \* quantum the loop passes to execute when the queue is empty
DefaultTimeSlice == 10

ArrivalTimes == 0..MaxArrival
BurstTimes == {b * TimeStep : b \in 0..MaxBurstSteps}
MemorySizes == 0..MaxMem
Slices == {SliceBusy, SliceIdle}

\* Process::Process; the constructor throws for burst_time = 0 or memory_required = 0
ValidProcessParameters(burst_time, memory_required) ==
    burst_time # 0 /\ memory_required # 0

Process(pid, arrival_time, burst_time, memory_required, priority) ==
    [pid |-> pid, arrival_time |-> arrival_time, burst_time |-> burst_time,
     remaining_time |-> burst_time, memory_required |-> memory_required,
     priority |-> priority, state |-> "NEW", completion_time |-> 0]

LivePids(procs) == {procs[i].pid : i \in 1..Len(procs)}

\* process_map_ lookup; callers only pass pids of live entries
IndexOf(procs, pid) == CHOOSE i \in 1..Len(procs) : procs[i].pid = pid

get_process(procs, pid) == procs[IndexOf(procs, pid)]

get_processes_by_state(procs, state) ==
    SelectSeq(procs, LAMBDA p : p.state = state)

\* ProcessManager::destroy_process: the entry leaves the map and the vector
destroy_process(procs, pid) ==
    IF pid \in LivePids(procs)
    THEN [procs |-> RemoveAt(procs, IndexOf(procs, pid)), ret |-> TRUE]
    ELSE [procs |-> procs, ret |-> FALSE]

\* ProcessManager::cleanup_terminated: every TERMINATED entry leaves the map and
\* the vector; the number of entries removed is returned
\* cleanup_terminated stepping past the entry that follows an erased one
RECURSIVE cleanup_terminated_skipping(_)
cleanup_terminated_skipping(procs) ==
    IF procs = <<>> THEN [procs |-> <<>>, ret |-> 0]
    ELSE IF Head(procs).state = "TERMINATED"
         THEN IF Len(procs) = 1 THEN [procs |-> <<>>, ret |-> 1]
              ELSE LET r == cleanup_terminated_skipping(Tail(Tail(procs)))
                   IN  [procs |-> <<procs[2]>> \o r.procs, ret |-> r.ret + 1]
         ELSE LET r == cleanup_terminated_skipping(Tail(procs))
              IN  [procs |-> <<Head(procs)>> \o r.procs, ret |-> r.ret]

cleanup_terminated(procs) ==
    LET kept == SelectSeq(procs, LAMBDA p : p.state # "TERMINATED")
    IN  [procs |-> kept, ret |-> Len(procs) - Len(kept)]

\* the scheduler/registry state an operation works on; changes collects the
\* <<old, new>> pairs of the state changes it makes
World(procs, queue, history) ==
    [procs |-> procs, queue |-> queue, history |-> history, changes |-> {}]

\* Process::set_state
set_state(W, pid, state) ==
    LET i == IndexOf(W.procs, pid)
        old == W.procs[i].state
    IN  [W EXCEPT !.procs[i].state = state,
                  !.changes = IF old = state THEN @ ELSE @ \cup {<<old, state>>}]

\* Process::execute on a RUNNING process, completing only below the quantum
execute_strict(W, pid, quantum) ==
    LET i == IndexOf(W.procs, pid)
    IN  IF W.procs[i].remaining_time < quantum
        THEN [W |-> [set_state(W, pid, "TERMINATED") EXCEPT !.procs[i].remaining_time = 0],
              ret |-> TRUE]
        ELSE [W |-> [W EXCEPT !.procs[i].remaining_time = @ - quantum], ret |-> FALSE]

\* Process::execute on a RUNNING process
execute(W, pid, quantum) ==
    LET i == IndexOf(W.procs, pid)
    IN  IF W.procs[i].remaining_time <= quantum
        THEN [W |-> [set_state(W, pid, "TERMINATED") EXCEPT !.procs[i].remaining_time = 0],
              ret |-> TRUE]
        ELSE [W |-> [W EXCEPT !.procs[i].remaining_time = @ - quantum], ret |-> FALSE]

(***************************************************************************)
(* Scheduler                                                               *)
(***************************************************************************)
ScheduleEvent(time, proc, old_s, new_s) ==
    [timestamp |-> time, process |-> proc, old_state |-> old_s, new_state |-> new_s]

record_event(W, pid, old_state, new_state, timestamp) ==
    [W EXCEPT !.history = Append(@, ScheduleEvent(timestamp, pid, old_state, new_state))]

\* add_to_ready_queue pushing at the front
add_to_ready_queue_front(W, pid) ==
    IF pid = 0 THEN W
    ELSE LET W1 == record_event(set_state(W, pid, "READY"), pid, "NEW", "READY", 0)
         IN  [W1 EXCEPT !.queue = <<pid>> \o @]

\* the queue is a std::queue whatever the algorithm: push appends at the back
add_to_ready_queue(W, pid) ==
    IF pid = 0 THEN W
    ELSE LET W1 == record_event(set_state(W, pid, "READY"), pid, "NEW", "READY", 0)
         IN  [W1 EXCEPT !.queue = Append(@, pid)]

\* get_next_process without its record_event call
get_next_process_silent(W) ==
    IF W.queue = <<>> THEN [W |-> W, ret |-> 0]
    ELSE LET pid == Head(W.queue)
             W1 == [W EXCEPT !.queue = Tail(@)]
         IN  [W |-> set_state(W1, pid, "RUNNING"), ret |-> pid]

\* front() and pop() whatever the algorithm
get_next_process(W) ==
    IF W.queue = <<>> THEN [W |-> W, ret |-> 0]
    ELSE LET pid == Head(W.queue)
             W1 == [W EXCEPT !.queue = Tail(@)]
         IN  [W |-> record_event(set_state(W1, pid, "RUNNING"), pid, "READY", "RUNNING", 0),
              ret |-> pid]

\* the drain loop of remove_from_ready_queue: every entry equal to pid is dropped,
\* marked TERMINATED and recorded; the others are kept in order
RECURSIVE RemoveScan(_, _, _)
RemoveScan(W, rest, pid) ==
    IF rest = <<>> THEN W
    ELSE IF Head(rest) = pid
         THEN RemoveScan(record_event(set_state(W, pid, "TERMINATED"), pid,
                                      "READY", "TERMINATED", 0),
                         Tail(rest), pid)
         ELSE RemoveScan([W EXCEPT !.queue = Append(@, Head(rest))], Tail(rest), pid)

remove_from_ready_queue(W, pid) ==
    IF pid = 0 THEN [W |-> W, ret |-> FALSE]
    ELSE [W |-> RemoveScan([W EXCEPT !.queue = <<>>], W.queue, pid),
          ret |-> \E i \in 1..Len(W.queue) : W.queue[i] = pid]

RECURSIVE clear_ready_queue(_)
clear_ready_queue(W) ==
    IF W.queue = <<>> THEN W
    ELSE LET pid == Head(W.queue)
             W1 == [W EXCEPT !.queue = Tail(@)]
         IN  clear_ready_queue(record_event(set_state(W1, pid, "TERMINATED"), pid,
                                            "READY", "TERMINATED", 0))

ContextSwitchOverhead == 1

\* simulate_context_switch that leaves the outgoing process as it is
simulate_context_switch_to_only(W, from, to, timestamp) ==
    IF to # 0
    THEN record_event(set_state(W, to, "RUNNING"), to, "READY", "RUNNING",
                      timestamp + ContextSwitchOverhead)
    ELSE W

simulate_context_switch(W, from, to, timestamp) ==
    LET W1 == IF from # 0
              THEN record_event(set_state(W, from, "READY"), from,
                                "RUNNING", "READY", timestamp)
              ELSE W
    IN  IF to # 0
        THEN record_event(set_state(W1, to, "RUNNING"), to, "READY", "RUNNING",
                          timestamp + ContextSwitchOverhead)
        ELSE W1

\* a rebuild of the queue that stops one entry short
convert_to_priority_queue_short(queue) ==
    IF queue = <<>> THEN queue ELSE SubSeq(queue, 1, Len(queue) - 1)

\* convert_to_priority_queue has an empty body
convert_to_priority_queue(queue) == queue

(***************************************************************************)
(* Registry, process and scheduler operations as actions                   *)
(***************************************************************************)
RegistryInit ==
    /\ processes = <<>>
    /\ next_pid = 1

SchedulerInit ==
    /\ time_slice = DefaultTimeSlice
    /\ ready_queue = <<>>
    /\ schedule_history = <<>>
    /\ context_switches = 0
    /\ sched_call = [op |-> "construct"]
    /\ state_changes = {}
    /\ switched = FALSE

Current == World(processes, ready_queue, schedule_history)

WithinBounds(W, limit) == Len(W.queue) <= MaxQueue /\ Len(W.history) <= limit

CommitWithin(W, limit) ==
    /\ WithinBounds(W, limit)
    /\ processes' = W.procs
    /\ ready_queue' = W.queue
    /\ schedule_history' = W.history
    /\ state_changes' = W.changes

Commit(W) == CommitWithin(W, MaxHistory)

\* create_process handing out the smallest id that no live entry has
CreateProcessReusing(arrival_time, burst_time, memory_required, priority, limit) ==
    /\ next_pid <= limit
    /\ next_pid' = next_pid + 1
    /\ LET pid == CHOOSE n \in 1..(Len(processes) + 1) :
                     /\ n \notin LivePids(processes)
                     /\ \A k \in 1..(n - 1) : k \in LivePids(processes)
       IN  IF ValidProcessParameters(burst_time, memory_required)
           THEN /\ processes' = Append(processes,
                       Process(pid, arrival_time, burst_time, memory_required, priority))
                /\ sched_call' = [op |-> "create_process", ret |-> pid]
           ELSE /\ processes' = processes
                /\ sched_call' = [op |-> "create_process", ret |-> 0]
    /\ state_changes' = {}
    /\ UNCHANGED <<hwVars, simVars, memVars, schedVars, switched>>

\* next_pid_++ is evaluated before the constructor runs, so a rejected request
\* uses up an id
CreateProcessUpTo(arrival_time, burst_time, memory_required, priority, limit) ==
    /\ next_pid <= limit
    /\ next_pid' = next_pid + 1
    /\ IF ValidProcessParameters(burst_time, memory_required)
       THEN /\ processes' = Append(processes,
                   Process(next_pid, arrival_time, burst_time, memory_required, priority))
            /\ sched_call' = [op |-> "create_process", ret |-> next_pid]
       ELSE /\ processes' = processes
            /\ sched_call' = [op |-> "create_process", ret |-> 0]
    /\ state_changes' = {}
    /\ UNCHANGED <<hwVars, simVars, memVars, schedVars, switched>>

\* create_process while ids up to MaxProcs are to be had
CreateProcess(arrival_time, burst_time, memory_required, priority) ==
    CreateProcessUpTo(arrival_time, burst_time, memory_required, priority, MaxProcs)

\* Process::execute without the check of the state
ExecuteUnchecked(pid, quantum) ==
    /\ pid \in LivePids(processes)
    /\ LET r == execute(Current, pid, quantum)
       IN  /\ processes' = r.W.procs
           /\ state_changes' = r.W.changes
           /\ sched_call' = [op |-> "execute", pid |-> pid, quantum |-> quantum,
                             ret |-> r.ret, threw |-> FALSE]
    /\ UNCHANGED <<hwVars, simVars, memVars, next_pid, schedVars, switched>>

\* Process::execute throws, changing nothing, unless the process is RUNNING
Execute(pid, quantum) ==
    /\ pid \in LivePids(processes)
    /\ IF get_process(processes, pid).state # "RUNNING"
       THEN /\ sched_call' = [op |-> "execute", pid |-> pid, quantum |-> quantum,
                              ret |-> "runtime_error", threw |-> TRUE]
            /\ state_changes' = {}
            /\ UNCHANGED processes
       ELSE LET r == execute(Current, pid, quantum)
            IN  /\ processes' = r.W.procs
                /\ state_changes' = r.W.changes
                /\ sched_call' = [op |-> "execute", pid |-> pid, quantum |-> quantum,
                                  ret |-> r.ret, threw |-> FALSE]
    /\ UNCHANGED <<hwVars, simVars, memVars, next_pid, schedVars, switched>>

\* Process::set_state assigns whatever state it is given
SetState(pid, state) ==
    /\ pid \in LivePids(processes)
    /\ LET W == set_state(Current, pid, state)
       IN  /\ processes' = W.procs
           /\ state_changes' = W.changes
    /\ sched_call' = [op |-> "set_state", pid |-> pid, state |-> state]
    /\ UNCHANGED <<hwVars, simVars, memVars, next_pid, schedVars, switched>>

\* neither operation tells the Scheduler, whose queue and history hold Process*
\* ProcessManager::reset
ProcessManagerReset ==
    /\ processes' = <<>>
    /\ next_pid' = 1
    /\ sched_call' = [op |-> "process_manager_reset"]
    /\ state_changes' = {}
    /\ UNCHANGED <<hwVars, simVars, memVars, schedVars, switched>>

DestroyProcess(pid) ==
    LET r == destroy_process(processes, pid)
    IN  /\ processes' = r.procs
        /\ sched_call' = [op |-> "destroy_process", pid |-> pid, ret |-> r.ret]
        /\ state_changes' = {}
        /\ UNCHANGED <<hwVars, simVars, memVars, next_pid, schedVars, switched>>

CleanupTerminated ==
    LET r == cleanup_terminated(processes)
    IN  /\ processes' = r.procs
        /\ sched_call' = [op |-> "cleanup_terminated", ret |-> r.ret]
        /\ state_changes' = {}
        /\ UNCHANGED <<hwVars, simVars, memVars, next_pid, schedVars, switched>>

\* add_to_ready_queue while the history holds at most limit events
AddToReadyQueueWithin(pid, limit) ==
    /\ pid \in LivePids(processes) \cup {0}
    /\ CommitWithin(add_to_ready_queue(Current, pid), limit)
    /\ sched_call' = [op |-> "add_to_ready_queue", ret |-> pid]
    /\ switched' = FALSE
    /\ UNCHANGED <<hwVars, simVars, memVars, next_pid, algorithm, time_slice, context_switches>>

AddToReadyQueue(pid) == AddToReadyQueueWithin(pid, MaxHistory)

\* get_next_process while the history holds at most limit events
GetNextProcessWithin(limit) ==
    LET r == get_next_process(Current)
    IN  /\ CommitWithin(r.W, limit)
        /\ sched_call' = [op |-> "get_next_process", ret |-> r.ret,
                          queue_before |-> ready_queue]
        /\ UNCHANGED <<hwVars, simVars, memVars, next_pid, algorithm, time_slice, context_switches,
                       switched>>

GetNextProcess == GetNextProcessWithin(MaxHistory)

RemoveFromReadyQueue(pid) ==
    /\ pid \in LivePids(processes) \cup {0}
    /\ LET r == remove_from_ready_queue(Current, pid)
       IN  /\ Commit(r.W)
           /\ sched_call' = [op |-> "remove_from_ready_queue", ret |-> r.ret]
    /\ switched' = FALSE
    /\ UNCHANGED <<hwVars, simVars, memVars, next_pid, algorithm, time_slice, context_switches>>

ClearReadyQueue ==
    /\ Commit(clear_ready_queue(Current))
    /\ sched_call' = [op |-> "clear_ready_queue"]
    /\ switched' = FALSE
    /\ UNCHANGED <<hwVars, simVars, memVars, next_pid, algorithm, time_slice, context_switches>>

\* simulate_context_switch while fewer than limit switches are counted
SimulateContextSwitchBelow(from, to, timestamp, limit) ==
    /\ from \in LivePids(processes) \cup {0}
    /\ to \in LivePids(processes) \cup {0}
    /\ context_switches < limit
    /\ Commit(simulate_context_switch(Current, from, to, timestamp))
    /\ context_switches' = context_switches + 1
    /\ sched_call' = [op |-> "simulate_context_switch", from |-> from, to |-> to,
                      ret |-> ContextSwitchOverhead]
    /\ UNCHANGED <<hwVars, simVars, memVars, next_pid, algorithm, time_slice, switched>>

SimulateContextSwitch(from, to, timestamp) ==
    SimulateContextSwitchBelow(from, to, timestamp, MaxSwitches)

SetAlgorithm(a) ==
    /\ algorithm' = a
    /\ ready_queue' = IF algorithm # a THEN convert_to_priority_queue(ready_queue)
                      ELSE ready_queue
    /\ switched' = IF algorithm # a THEN ready_queue # <<>> ELSE switched
    /\ sched_call' = [op |-> "set_algorithm", ret |-> (algorithm # a)]
    /\ state_changes' = {}
    /\ UNCHANGED <<hwVars, simVars, memVars, regVars, time_slice, schedule_history, context_switches>>

\* set_time_slice(0) throws and changes nothing
SetTimeSlice(t) ==
    /\ time_slice' = IF t = 0 THEN time_slice ELSE t
    /\ sched_call' = [op |-> "set_time_slice",
                      ret |-> IF t = 0 THEN "invalid_argument" ELSE "ok"]
    /\ state_changes' = {}
    /\ UNCHANGED <<hwVars, simVars, memVars, regVars, algorithm, ready_queue, schedule_history,
                   context_switches, switched>>

SchedulerReset ==
    LET W == clear_ready_queue(Current)
    IN  /\ processes' = W.procs
        /\ ready_queue' = W.queue
        /\ schedule_history' = <<>>
        /\ state_changes' = W.changes
        /\ context_switches' = 0
        /\ sched_call' = [op |-> "reset"]
        /\ switched' = FALSE
        /\ UNCHANGED <<hwVars, simVars, memVars, next_pid, algorithm, time_slice>>

(***************************************************************************)
(* HardwareSimulator                                                       *)
(***************************************************************************)
InterruptTypes == {"TIMER", "I_O", "SYSTEM_CALL", "HARDWARE_FAULT"}

Interrupt(time, itype, source) ==
    [timestamp |-> time, type |-> itype, source_id |-> source]

handle_timer_interrupt == 1
handle_io_interrupt == 3
handle_system_call_interrupt == 5
handle_hardware_fault_interrupt == 10

\* every interrupt costs what a timer interrupt costs
OverheadFlat(interrupt) == handle_timer_interrupt

Overhead(interrupt) ==
    CASE interrupt.type = "TIMER" -> handle_timer_interrupt
      [] interrupt.type = "I_O" -> handle_io_interrupt
      [] interrupt.type = "SYSTEM_CALL" -> handle_system_call_interrupt
      [] interrupt.type = "HARDWARE_FAULT" -> handle_hardware_fault_interrupt

\* schedule_interrupt; the pending interrupts are kept in the order they were pushed
schedule_interrupt(queue, interrupt) == Append(queue, interrupt)

\* simulate_io_interrupt pushes the interrupt; the handle_io_interrupt call it makes
\* next only computes a value
simulate_io_interrupt(queue, process_id, timestamp) ==
    schedule_interrupt(queue, Interrupt(timestamp, "I_O", process_id))

\* the other simulate_* operations push their interrupt likewise
simulate_timer_interrupt(queue, process_id, timestamp) ==
    schedule_interrupt(queue, Interrupt(timestamp, "TIMER", process_id))

simulate_system_call(queue, process_id, timestamp) ==
    schedule_interrupt(queue, Interrupt(timestamp, "SYSTEM_CALL", process_id))

simulate_hardware_fault(queue, timestamp) ==
    schedule_interrupt(queue, Interrupt(timestamp, "HARDWARE_FAULT", 0))

\* clear_interrupts pops every pending interrupt and clears the history
clear_interrupts(queue, history) == [queue |-> <<>>, history |-> <<>>]

HardwareContextSwitchOverhead == 2

\* the interrupts with a timestamp below the current time only
DueIndicesBefore(queue, now) ==
    {i \in 1..Len(queue) : queue[i].timestamp < now}

DueIndices(queue, now) ==
    {i \in 1..Len(queue) : queue[i].timestamp <= now}

\* the orders in which top()/pop() can hand out the due interrupts: the comparator
\* looks at the timestamp only, so equal timestamps come out in an order the heap
\* chooses
HandlingOrders(queue, now) ==
    LET due == DueIndices(queue, now)
        n == Cardinality(due)
    IN  {f \in [1..n -> due] :
            /\ \A a, b \in 1..n : a # b => f[a] # f[b]
            /\ \A a, b \in 1..n : a < b => queue[f[a]].timestamp <= queue[f[b]].timestamp}

RECURSIVE SumOverhead(_)
SumOverhead(handled) ==
    IF handled = <<>> THEN 0 ELSE Overhead(Head(handled)) + SumOverhead(Tail(handled))

\* process_interrupts along one handling order
process_interrupts(queue, history, overhead, now, order) ==
    LET handled == [a \in 1..Len(order) |-> queue[order[a]]]
    IN  [queue |-> SelectSeq(queue, LAMBDA x : x.timestamp > now),
         history |-> history \o handled,
         overhead |-> overhead + SumOverhead(handled),
         ret |-> Len(handled)]

HardwareInit ==
    /\ interrupt_queue = <<>>
    /\ interrupt_history = <<>>
    /\ total_overhead = 0
    /\ hw_call = [op |-> "construct"]

ScheduleInterrupt(interrupt) ==
    /\ Len(interrupt_queue) + Len(interrupt_history) < MaxInterrupts
    /\ interrupt_queue' = schedule_interrupt(interrupt_queue, interrupt)
    /\ hw_call' = [op |-> "schedule_interrupt", interrupt |-> interrupt]
    /\ UNCHANGED <<interrupt_history, total_overhead, memVars, regVars, schedVars,
                   obsVars, simVars>>

\* handle_io_interrupt's value is positive, so the call returns true
SimulateIoInterrupt(process_id, timestamp) ==
    /\ Len(interrupt_queue) + Len(interrupt_history) < MaxInterrupts
    /\ interrupt_queue' = simulate_io_interrupt(interrupt_queue, process_id, timestamp)
    /\ hw_call' = [op |-> "simulate_io_interrupt",
                   interrupt |-> Interrupt(timestamp, "I_O", process_id),
                   ret |-> (handle_io_interrupt > 0)]
    /\ UNCHANGED <<interrupt_history, total_overhead, memVars, regVars, schedVars,
                   obsVars, simVars>>

ProcessInterrupts(now) ==
    /\ \E order \in HandlingOrders(interrupt_queue, now) :
          LET h == process_interrupts(interrupt_queue, interrupt_history, total_overhead,
                                      now, order)
          IN  /\ interrupt_queue' = h.queue
              /\ interrupt_history' = h.history
              /\ total_overhead' = h.overhead
              /\ hw_call' = [op |-> "process_interrupts", now |-> now, ret |-> h.ret]
    /\ UNCHANGED <<memVars, regVars, schedVars, obsVars, simVars>>

\* an operation that pushes interrupt and returns ret
Raise(op, interrupt, ret) ==
    /\ Len(interrupt_queue) + Len(interrupt_history) < MaxInterrupts
    /\ interrupt_queue' = schedule_interrupt(interrupt_queue, interrupt)
    /\ hw_call' = [op |-> op, interrupt |-> interrupt, ret |-> ret]
    /\ UNCHANGED <<interrupt_history, total_overhead, memVars, regVars, schedVars,
                   obsVars, simVars>>

\* current_process may be null: the source is then 0
SimulateTimerInterrupt(process_id, timestamp) ==
    Raise("simulate_timer_interrupt", Interrupt(timestamp, "TIMER", process_id),
          handle_timer_interrupt)

SimulateSystemCall(process_id, timestamp) ==
    Raise("simulate_system_call", Interrupt(timestamp, "SYSTEM_CALL", process_id),
          handle_system_call_interrupt)

SimulateHardwareFault(timestamp) ==
    Raise("simulate_hardware_fault", Interrupt(timestamp, "HARDWARE_FAULT", 0),
          handle_hardware_fault_interrupt > 0)

ClearInterrupts ==
    LET c == clear_interrupts(interrupt_queue, interrupt_history)
    IN  /\ interrupt_queue' = c.queue
        /\ interrupt_history' = c.history
        /\ hw_call' = [op |-> "clear_interrupts"]
        /\ UNCHANGED <<total_overhead, memVars, regVars, schedVars, obsVars, simVars>>

\* simulate_mmu_translation only computes a value; from and to are read, not changed
SimulateHardwareContextSwitch(from, to, timestamp) ==
    /\ total_overhead' = total_overhead + HardwareContextSwitchOverhead
    /\ hw_call' = [op |-> "simulate_hardware_context_switch",
                   ret |-> HardwareContextSwitchOverhead]
    /\ UNCHANGED <<interrupt_queue, interrupt_history, memVars, regVars, schedVars,
                   obsVars, simVars>>

HwReset ==
    LET c == clear_interrupts(interrupt_queue, interrupt_history)
    IN  /\ interrupt_queue' = c.queue
        /\ interrupt_history' = c.history
        /\ total_overhead' = 0
        /\ hw_call' = [op |-> "reset"]
        /\ UNCHANGED <<memVars, regVars, schedVars, obsVars, simVars>>

(***************************************************************************)
(* OSSimulator                                                             *)
(***************************************************************************)
GcPeriod == 1000      \* garbage_collect runs on the steps whose time is a multiple

\* create_test_processes after the registry reset: one create_process and one
\* allocate per parameter tuple <<arrival, burst, memory, priority>>
RECURSIVE create_test_processes(_, _, _, _, _, _)
create_test_processes(procs, pid, blocks, capacity, strat, params) ==
    IF params = <<>>
    THEN [procs |-> procs, next_pid |-> pid, blocks |-> blocks, capacity |-> capacity]
    ELSE LET p == Head(params)
             r == allocate(blocks, strat, pid, p[3])
         IN  create_test_processes(Append(procs, Process(pid, p[1], p[2], p[3], p[4])),
                                   pid + 1, r.blocks,
                                   IF Len(r.blocks) > capacity THEN Len(r.blocks)
                                   ELSE capacity,
                                   strat, Tail(params))

\* the promotion loop over the READY snapshot
RECURSIVE Promote(_, _, _)
Promote(W, ready, now) ==
    IF ready = <<>> THEN W
    ELSE Promote(IF Head(ready).arrival_time <= now
                 THEN add_to_ready_queue(W, Head(ready).pid)
                 ELSE W,
                 Tail(ready), now)

OwnedBytes(blocks, pid) ==
    LET owned == SelectSeq(blocks, LAMBDA b : b.is_allocated /\ b.process_id = pid)
    IN  get_allocated_memory(owned)

\* Process::get_turnaround_time; a negative value stands for the uint64 it wraps to
get_turnaround_time(p) ==
    IF p.completion_time = 0 THEN 0 ELSE p.completion_time - p.arrival_time

\* Process::get_waiting_time; a negative value stands for the uint64 it wraps to
get_waiting_time(p) ==
    IF p.completion_time = 0 THEN 0 ELSE get_turnaround_time(p) - p.burst_time

get_completed_count(procs) == Len(get_processes_by_state(procs, "TERMINATED"))

\* completed processes per millisecond of the window, as the fraction num/den
calculate_throughput(procs, time_elapsed) ==
    IF time_elapsed = 0 THEN [num |-> 0, den |-> 1]
    ELSE [num |-> get_completed_count(procs), den |-> time_elapsed]

\* the terms the loop adds up, in the order of the registry, and their number:
\* the double the code returns is their sum divided by count (0 without terms)
calculate_average_turnaround_time(procs) ==
    LET done == get_processes_by_state(procs, "TERMINATED")
    IN  [terms |-> [i \in 1..Len(done) |-> get_turnaround_time(done[i])],
         count |-> Len(done)]

calculate_average_waiting_time(procs) ==
    LET done == get_processes_by_state(procs, "TERMINATED")
    IN  [terms |-> [i \in 1..Len(done) |-> get_waiting_time(done[i])],
         count |-> Len(done)]

calculate_cpu_utilization(total_time, idle_time) ==
    IF total_time = 0 THEN [num |-> 0, den |-> 1]
    ELSE [num |-> total_time - idle_time, den |-> total_time]

\* ResourceAnalytics::calculate_metrics over the window [start, end]
calculate_metrics(procs, switches, blocks, start, end) ==
    LET time_elapsed == end - start
    IN  [total_processes |-> Len(procs),
         completed_processes |-> get_completed_count(procs),
         context_switches |-> switches,
         throughput |-> calculate_throughput(procs, time_elapsed),
         average_turnaround_time |-> calculate_average_turnaround_time(procs),
         average_waiting_time |-> calculate_average_waiting_time(procs),
         cpu_utilization |-> calculate_cpu_utilization(time_elapsed, 0),
         memory_utilization |-> get_utilization(blocks),
         fragmentation |-> get_fragmentation(blocks)]

SimulatorInit ==
    /\ current_time = 0
    /\ pc = "start"
    /\ sim_call = [op |-> "construct"]

SimParameters ==
    (ArrivalTimes \X (BurstTimes \ {0}) \X (MemorySizes \ {0}) \X PriorityInputs)

CreateTestProcesses(params) ==
    /\ pc = "start"
    /\ LET r == create_test_processes(<<>>, 1, memory_blocks, blocks_capacity, strategy, params)
       IN  /\ processes' = r.procs
           /\ next_pid' = r.next_pid
           /\ memory_blocks' = r.blocks
           /\ blocks_capacity' = r.capacity
    /\ pc' = "idle"
    /\ sim_call' = [op |-> "create_test_processes"]
    /\ UNCHANGED <<strategy, mm_call, schedVars, obsVars, hwVars, current_time>>

\* admission of a NEW process by the program that embeds the components: the
\* public Scheduler::add_to_ready_queue, the only operation that makes a process READY
Admit(pid) ==
    /\ pc = "idle"
    /\ pid \in LivePids(processes)
    /\ get_process(processes, pid).state = "NEW"
    /\ CommitWithin(add_to_ready_queue(Current, pid), MaxSimHistory)
    /\ sched_call' = [op |-> "add_to_ready_queue", ret |-> pid]
    /\ sim_call' = [op |-> "admit"]
    /\ UNCHANGED <<memVars, next_pid, algorithm, time_slice, context_switches, switched,
                   hwVars, current_time, pc>>

\* the head of run_simulation_iteration
BeginIteration(a, s) ==
    /\ pc = "idle"
    /\ algorithm' = a
    /\ ready_queue' = IF algorithm # a THEN convert_to_priority_queue(ready_queue)
                      ELSE ready_queue
    /\ strategy' = s
    /\ current_time' = 0
    /\ pc' = "run"
    /\ switched' = IF algorithm # a THEN ready_queue # <<>> ELSE switched
    /\ sim_call' = [op |-> "begin"]
    /\ state_changes' = {}
    /\ UNCHANGED <<memory_blocks, blocks_capacity, mm_call, regVars, time_slice, schedule_history,
                   context_switches, sched_call, hwVars>>

\* one pass through the body of the while loop
SimStep(io) ==
    /\ pc = "run"
    /\ current_time < SimulationTime
    /\ LET ready == get_processes_by_state(processes, "READY")
           W1 == Promote(Current, ready, current_time)
           d == get_next_process(W1)
           cur == d.ret
           quantum == IF Len(d.W.queue) > 0 THEN SliceBusy ELSE SliceIdle
           e == IF cur # 0 THEN execute(d.W, cur, quantum) ELSE [W |-> d.W, ret |-> FALSE]
           completed == cur # 0 /\ e.ret
           blocked == cur # 0 /\ ~e.ret /\ io
           W2 == IF cur = 0 THEN e.W
                 ELSE IF completed
                 THEN LET T == set_state(e.W, cur, "TERMINATED")
                      IN  [T EXCEPT !.procs[IndexOf(T.procs, cur)].completion_time =
                                        current_time]
                 ELSE IF io THEN set_state(e.W, cur, "BLOCKED")
                 ELSE add_to_ready_queue(e.W, cur)
           blocks1 == IF completed THEN deallocate(memory_blocks, cur, 0).blocks
                      ELSE memory_blocks
           queue1 == IF blocked
                     THEN simulate_io_interrupt(interrupt_queue, cur, current_time)
                     ELSE interrupt_queue
           blocks2 == IF current_time % GcPeriod = 0 THEN garbage_collect(blocks1).blocks
                      ELSE blocks1
       IN  /\ CommitWithin(W2, MaxSimHistory)
           /\ memory_blocks' = blocks2
           /\ \E order \in HandlingOrders(queue1, current_time) :
                 LET h == process_interrupts(queue1, interrupt_history, total_overhead,
                                             current_time, order)
                 IN  /\ interrupt_queue' = h.queue
                     /\ interrupt_history' = h.history
                     /\ total_overhead' = h.overhead
                     /\ hw_call' = [op |-> "process_interrupts", now |-> current_time,
                                    ret |-> h.ret]
           /\ sim_call' = [op |-> "step", time |-> current_time, dispatched |-> cur,
                           completed |-> completed, blocked |-> blocked,
                           owned_before |-> [p \in 1..MaxProcs |->
                                                OwnedBytes(memory_blocks, p)]]
    /\ current_time' = current_time + TimeStep
    /\ UNCHANGED <<blocks_capacity, strategy, mm_call, next_pid, algorithm, time_slice,
                   context_switches, sched_call, switched, pc>>

\* the loop condition fails; calculate_metrics reads the components
EndIteration ==
    /\ pc = "run"
    /\ current_time >= SimulationTime
    /\ pc' = "idle"
    /\ sim_call' = [op |-> "end",
                    ret |-> calculate_metrics(processes, context_switches, memory_blocks,
                                              0, SimulationTime)]
    /\ state_changes' = {}
    /\ UNCHANGED <<memVars, regVars, schedVars, sched_call, switched, hwVars, current_time>>

\* calculate_metrics that also drops the terminated processes from the registry
CalculateMetricsCollecting ==
    /\ pc = "idle"
    /\ sim_call.op \in {"end", "calculate_metrics"}
    /\ processes' = cleanup_terminated(processes).procs
    /\ sim_call' = [op |-> "calculate_metrics",
                    ret |-> calculate_metrics(processes, context_switches, memory_blocks,
                                              0, SimulationTime)]
    /\ UNCHANGED <<memVars, next_pid, schedVars, obsVars, hwVars, current_time, pc>>

\* a further call of calculate_metrics after the one that ends an iteration, the
\* window still being the one set_time_bounds gave that iteration
CalculateMetrics ==
    /\ pc = "idle"
    /\ sim_call.op \in {"end", "calculate_metrics"}
    /\ sim_call' = [op |-> "calculate_metrics",
                    ret |-> calculate_metrics(processes, context_switches, memory_blocks,
                                              0, SimulationTime)]
    /\ UNCHANGED <<memVars, regVars, schedVars, obsVars, hwVars, current_time, pc>>

\* the simulator as main drives it, plus admission
SimInit ==
    /\ memory_blocks = initialize_memory
    /\ blocks_capacity = 1
    /\ strategy = "FIRST_FIT"
    /\ mm_call = [op |-> "construct"]
    /\ RegistryInit
    /\ SchedulerInit
    /\ algorithm = "ROUND_ROBIN"
    /\ HardwareInit
    /\ SimulatorInit

SimNext ==
    \/ \E n \in 1..MaxProcs : \E params \in [1..n -> SimParameters] :
          CreateTestProcesses(params)
    \/ \E pid \in 1..MaxProcs : Admit(pid)
    \/ \E a \in SchedulingAlgorithms, s \in AllocationStrategies : BeginIteration(a, s)
    \/ \E io \in BOOLEAN : SimStep(io)
    \/ EndIteration

SpecSim == SimInit /\ [][SimNext]_vars

\* the simulator with FIRST_FIT and processes of MEDIUM priority that arrive at
\* time 0, and the metrics read again after an iteration
MetricsNext ==
    \/ \E n \in 1..MaxProcs :
          \E params \in [1..n -> ({0} \X (BurstTimes \ {0}) \X (MemorySizes \ {0})
                                     \X {MEDIUM})] :
             CreateTestProcesses(params)
    \/ \E pid \in 1..MaxProcs : Admit(pid)
    \/ \E a \in SchedulingAlgorithms : BeginIteration(a, "FIRST_FIT")
    \/ \E io \in BOOLEAN : SimStep(io)
    \/ EndIteration
    \/ CalculateMetrics

SpecMetrics == SimInit /\ [][MetricsNext]_vars

(***************************************************************************)
(* Specifications                                                          *)
(***************************************************************************)
\* the MemoryManager alone, driven through its public operations
MemInit ==
    /\ MemoryManagerInit
    /\ RegistryInit
    /\ SchedulerInit
    /\ algorithm = "ROUND_ROBIN"
    /\ HardwareInit
    /\ SimulatorInit

SpecMem == MemInit /\ [][MemNext]_vars

\* the block layout: one process allocates; it and a process that owns nothing
\* deallocate
LayoutNext ==
    \/ \E n \in 0..(TotalMemory + 1) : Allocate(1, n)
    \/ \E p \in {1, 2}, a \in 0..TotalMemory : Deallocate(p, a)
    \/ GarbageCollect
    \/ MemReset
    \/ \E s \in AllocationStrategies : SetAllocationStrategy(s)

SpecLayout == MemInit /\ [][LayoutNext]_vars

\* ProcessManager, Process and Scheduler driven through their public operations
SchedInit ==
    /\ memory_blocks = initialize_memory
    /\ blocks_capacity = 1
    /\ strategy = "FIRST_FIT"
    /\ mm_call = [op |-> "construct"]
    /\ RegistryInit
    /\ SchedulerInit
    /\ algorithm \in SchedulingAlgorithms
    /\ HardwareInit
    /\ SimulatorInit

\* the dispatch order: processes are created, queued, dispatched and executed
PolicyNext ==
    \/ \E a \in ArrivalTimes, b \in BurstTimes, m \in MemorySizes, p \in PriorityInputs :
          CreateProcess(a, b, m, p)
    \/ \E pid \in 1..MaxProcs, q \in Slices : Execute(pid, q)
    \/ \E pid \in 0..MaxProcs : AddToReadyQueue(pid)
    \/ GetNextProcess

SpecPolicy == SchedInit /\ [][PolicyNext]_vars

\* a Process through its life: processes of every burst time are queued,
\* dispatched and executed with both quanta of the simulation loop
ProcessNext ==
    \/ \E b \in BurstTimes : CreateProcess(0, b, 1, MEDIUM)
    \/ \E pid \in 1..MaxProcs, q \in Slices : Execute(pid, q)
    \/ \E pid \in 1..MaxProcs : AddToReadyQueue(pid)
    \/ GetNextProcess

\* the Scheduler as initialize_components constructs it
ProcessInit == SchedInit /\ algorithm = "ROUND_ROBIN"

SpecProcess == ProcessInit /\ [][ProcessNext]_vars

\* the ready queue under a caller that re-enqueues: processes that need two time
\* steps are queued, dispatched, executed for one step and queued again, and the
\* policy is changed at run time
QueueNext ==
    \/ CreateProcess(0, 2 * TimeStep, 1, MEDIUM)
    \/ \E pid \in 1..MaxProcs : Execute(pid, SliceBusy)
    \/ \E pid \in 0..MaxProcs : AddToReadyQueueWithin(pid, MaxHistory + 1)
    \/ GetNextProcessWithin(MaxHistory + 1)
    \/ \E a \in SchedulingAlgorithms : SetAlgorithm(a)

SpecQueue == ProcessInit /\ [][QueueNext]_vars

\* the context-switch counter under the operations of the Scheduler that change
\* processes, queue, history or counter, on processes of one time step, with up to
\* MaxSwitches + 1 switches counted
CounterNext ==
    \/ CreateProcess(0, TimeStep, 1, MEDIUM)
    \/ \E pid \in 1..MaxProcs : AddToReadyQueue(pid)
    \/ GetNextProcess
    \/ \E pid \in 1..MaxProcs : RemoveFromReadyQueue(pid)
    \/ ClearReadyQueue
    \/ \E from \in 0..MaxProcs, to \in 0..MaxProcs, t \in 0..MaxTimestamp :
          SimulateContextSwitchBelow(from, to, t, MaxSwitches + 1)
    \/ SchedulerReset

SpecCounter == ProcessInit /\ [][CounterNext]_vars

\* processes of both arrival times that run to completion or are dropped from the
\* ready queue, which is all calculate_average_turnaround_time reads
TurnaroundNext ==
    \/ \E a \in ArrivalTimes : CreateProcess(a, TimeStep, 1, MEDIUM)
    \/ \E pid \in 1..MaxProcs : AddToReadyQueue(pid)
    \/ GetNextProcess
    \/ \E pid \in 1..MaxProcs : Execute(pid, SliceBusy)
    \/ ClearReadyQueue

SpecTurnaround == ProcessInit /\ [][TurnaroundNext]_vars

\* the registry alone, with one process more than elsewhere: entries are made
\* READY or TERMINATED with set_state, destroyed and cleaned up, and the
\* registry is reset; every other request to create is one the constructor rejects
CleanupNext ==
    \/ \E b \in {0, TimeStep} : CreateProcessUpTo(0, b, 1, MEDIUM, MaxProcs + 1)
    \/ \E pid \in 1..(MaxProcs + 1), st \in {"READY", "TERMINATED"} : SetState(pid, st)
    \/ \E pid \in 1..(MaxProcs + 1) : DestroyProcess(pid)
    \/ CleanupTerminated
    \/ ProcessManagerReset

SpecCleanup == ProcessInit /\ [][CleanupNext]_vars

\* a Process driven directly: set_state with every state on the first process,
\* execute with both quanta of the simulation loop on every process
LifecycleNext ==
    \/ \E b \in BurstTimes : CreateProcess(0, b, 1, MEDIUM)
    \/ \E st \in ProcessStates : SetState(1, st)
    \/ \E pid \in 1..MaxProcs, q \in Slices : Execute(pid, q)

SpecLifecycle == ProcessInit /\ [][LifecycleNext]_vars

\* the dispatch order with policy changes at run time
SwitchNext ==
    \/ PolicyNext
    \/ \E a \in SchedulingAlgorithms : SetAlgorithm(a)

SpecSwitch == SchedInit /\ [][SwitchNext]_vars

\* every public operation of the Scheduler, on processes created with the default
\* priority, arrival time 0 and a burst of zero (rejected) or one time step
SchedNext ==
    \/ \E b \in {0, TimeStep} : CreateProcess(0, b, 1, MEDIUM)
    \/ \E pid \in 1..MaxProcs : Execute(pid, SliceBusy)
    \/ \E pid \in 0..MaxProcs : AddToReadyQueue(pid)
    \/ GetNextProcess
    \/ \E pid \in 0..MaxProcs : RemoveFromReadyQueue(pid)
    \/ ClearReadyQueue
    \/ \E from \in 0..MaxProcs, to \in 0..MaxProcs, t \in 0..MaxTimestamp :
          SimulateContextSwitch(from, to, t)
    \/ \E a \in SchedulingAlgorithms : SetAlgorithm(a)
    \/ \E t \in {0, DefaultTimeSlice} : SetTimeSlice(t)
    \/ SchedulerReset

SpecSched == SchedInit /\ [][SchedNext]_vars

\* the registry's removals next to the Scheduler's queue. get_next_process
\* dereferences the front entry: a call whose front entry was removed from the
\* registry reads freed memory, and behaviours are not followed past such a call
RegistryNext ==
    \/ \E b \in {0, TimeStep} : CreateProcess(0, b, 1, MEDIUM)
    \/ \E pid \in 1..MaxProcs : Execute(pid, SliceBusy)
    \/ \E pid \in 0..MaxProcs : AddToReadyQueue(pid)
    \/ (ready_queue # <<>> => Head(ready_queue) \in LivePids(processes)) /\ GetNextProcess
    \/ \E pid \in 1..MaxProcs : DestroyProcess(pid)
    \/ CleanupTerminated

SpecRegistry == SchedInit /\ [][RegistryNext]_vars

\* the HardwareSimulator's interrupt queue: timer interrupts and the I/O interrupts
\* of process 1 are scheduled and drained at times 0..MaxInterruptTime
HwNext ==
    \/ \E t \in 0..MaxInterruptTime : ScheduleInterrupt(Interrupt(t, "TIMER", 0))
    \/ \E t \in 0..MaxInterruptTime : SimulateIoInterrupt(1, t)
    \/ \E now \in 0..MaxInterruptTime : ProcessInterrupts(now)

SpecHw == SchedInit /\ [][HwNext]_vars

\* every public operation of the HardwareSimulator that changes its state: timer
\* interrupts at every time, I/O and system call interrupts of process 1 at time
\* 0 and faults at the latest time; the operations that add to the total overhead
\* are called while it is at most MaxOverhead
HwOpsNext ==
    \/ \E t \in 0..MaxInterruptTime : SimulateTimerInterrupt(0, t)
    \/ SimulateIoInterrupt(1, 0)
    \/ SimulateSystemCall(1, 0)
    \/ SimulateHardwareFault(MaxInterruptTime)
    \/ \E now \in 0..MaxInterruptTime :
          total_overhead <= MaxOverhead /\ ProcessInterrupts(now)
    \/ ClearInterrupts
    \/ total_overhead <= MaxOverhead /\ SimulateHardwareContextSwitch(0, 1, 0)
    \/ HwReset

SpecHwOps == ProcessInit /\ [][HwOpsNext]_vars

(***************************************************************************)
(* Claims about the MemoryManager                                          *)
(***************************************************************************)
HasFreeBlock(blocks) == \E i \in 1..Len(blocks) : ~blocks[i].is_allocated

\* C1: in every reachable state the block list is in strictly ascending address
\* order, starts at 0, has no gap and no overlap, and its sizes sum to total_memory.
C1_BlocksTileMemory ==
    /\ Len(memory_blocks) > 0
    /\ memory_blocks[1].address = 0
    /\ \A i \in 1..(Len(memory_blocks) - 1) :
          /\ memory_blocks[i].address < memory_blocks[i + 1].address
          /\ memory_blocks[i + 1].address = memory_blocks[i].address + memory_blocks[i].size
    /\ get_allocated_memory(memory_blocks) + get_free_memory(memory_blocks) = TotalMemory

\* the layout the claim expects from a collection: the allocated blocks of pre in
\* their order at consecutive addresses from 0, then one free block with the rest
RECURSIVE CompactedFrom(_, _)
CompactedFrom(blocks, next_address) ==
    IF blocks = <<>> THEN <<MemoryBlock(next_address, TotalMemory - next_address)>>
    ELSE IF Head(blocks).is_allocated
         THEN <<[Head(blocks) EXCEPT !.address = next_address]>>
              \o CompactedFrom(Tail(blocks), next_address + Head(blocks).size)
         ELSE CompactedFrom(Tail(blocks), next_address)

\* C2: after garbage_collect on a layout with at least one free block the allocated
\* blocks sit at consecutive addresses from 0 in their previous order, sizes and
\* owners unchanged, followed by exactly one free block of total_memory minus the
\* allocated bytes.
C2_GarbageCollectCompacts ==
    (mm_call.op = "garbage_collect" /\ HasFreeBlock(mm_call.pre))
        => memory_blocks = CompactedFrom(mm_call.pre, 0)

\* C6: allocate(pid, N) followed by deallocate(pid, a), a being what allocate returned,
\* leaves the allocated byte count as it was before the allocate and the fragmentation
\* no greater, whatever allocate returned.
C6_RoundTripRestores ==
    (mm_call.op = "deallocate" /\ mm_call.round_trip.pre_allocated # -1)
        => /\ get_allocated_memory(memory_blocks) = mm_call.round_trip.pre_allocated
           /\ FracLeq(get_fragmentation(memory_blocks),
                      mm_call.round_trip.pre_fragmentation)

\* the index of the first block in which two block lists differ, 0 when there is none
FirstDifference(pre, post) ==
    LET Differs(i) == i > Len(post) \/ pre[i] # post[i]
    IN  IF \E i \in 1..Len(pre) : Differs(i)
        THEN CHOOSE i \in 1..Len(pre) : Differs(i) /\ \A j \in 1..(i - 1) : ~Differs(j)
        ELSE 0

\* the layout the claim expects when the free block at index i is chosen for S bytes
ExpectedSplit(pre, i, process_id, S) ==
    LET B == pre[i].size
        taken == [pre[i] EXCEPT !.is_allocated = TRUE, !.process_id = process_id]
    IN  IF B - S >= PageSize
        THEN SubSeq(pre, 1, i - 1)
             \o <<[taken EXCEPT !.size = S], MemoryBlock(pre[i].address + S, B - S)>>
             \o SubSeq(pre, i + 1, Len(pre))
        ELSE SubSeq(pre, 1, i - 1) \o <<taken>> \o SubSeq(pre, i + 1, Len(pre))

\* C13: an allocate that chooses a free block of size B for S bytes splits it into
\* an allocated block of S at the same address and a free block of B - S right after
\* it when B - S >= page_size, and otherwise allocates the whole block and adds none.
C13_SplitAtPageSize ==
    [][(mm_call'.op = "allocate" /\ mm_call'.found)
          => LET i == FirstDifference(memory_blocks, memory_blocks')
             IN  /\ i # 0
                 /\ ~memory_blocks[i].is_allocated
                 /\ memory_blocks' = ExpectedSplit(memory_blocks, i, mm_call'.process_id,
                                                   mm_call'.size)]_vars

\* an allocate has just split a block: the chosen block holds exactly the request
\* and a new free block follows it
C13_Witness ==
    /\ mm_call.op = "allocate" /\ mm_call.found
    /\ get_allocated_memory(memory_blocks) - mm_call.pre_allocated = mm_call.size
    /\ mm_call.index < Len(memory_blocks)
    /\ memory_blocks[mm_call.index].size = mm_call.size
    /\ ~memory_blocks[mm_call.index + 1].is_allocated
    /\ memory_blocks[mm_call.index + 1].size >= PageSize
    /\ mm_call.index > 1

\* the free blocks of at least S bytes
Candidates(blocks, S) ==
    {i \in 1..Len(blocks) : ~blocks[i].is_allocated /\ blocks[i].size >= S}

\* the reference selection: the candidates the strategy allows
Reference(strat, blocks, S) ==
    LET C == Candidates(blocks, S)
        Lowest(D) == {i \in D : \A j \in D : blocks[i].address <= blocks[j].address}
    IN  CASE strat = "FIRST_FIT" -> Lowest(C)
          [] strat = "BEST_FIT" ->
                Lowest({i \in C : \A j \in C : blocks[i].size <= blocks[j].size})
          [] strat = "WORST_FIT" ->
                Lowest({i \in C : \A j \in C : blocks[i].size >= blocks[j].size})

\* C14: for 0 < S <= total_memory the block allocate chooses is the reference
\* selection of the active strategy (ties go to the lowest address), and allocate
\* fails only when no free block has at least S bytes.
C14_ReferenceSelection ==
    [][(mm_call'.op = "allocate" /\ mm_call'.size > 0 /\ mm_call'.size <= TotalMemory)
          => IF Candidates(memory_blocks, mm_call'.size) = {}
             THEN ~mm_call'.found
             ELSE /\ mm_call'.found
                  /\ FirstDifference(memory_blocks, memory_blocks')
                        \in Reference(strategy, memory_blocks, mm_call'.size)
                  /\ memory_blocks'[FirstDifference(memory_blocks, memory_blocks')]
                        .is_allocated]_vars

\* an allocate under BEST_FIT has just taken the first of two equally small free
\* blocks: a free block of the chosen block's size lies further up, and not next to it
C14_Witness ==
    /\ mm_call.op = "allocate" /\ mm_call.found
    /\ strategy = "BEST_FIT"
    /\ memory_blocks[mm_call.index].size = mm_call.size
    /\ \E j \in (mm_call.index + 2)..Len(memory_blocks) :
          /\ ~memory_blocks[j].is_allocated
          /\ memory_blocks[j].size = mm_call.size

\* the allocated blocks of a list, in order
AllocatedBlocks(blocks) == SelectSeq(blocks, LAMBDA b : b.is_allocated)

\* C15: deallocate(pid, addr) returns true exactly when a block starting at addr is
\* allocated; that block then becomes free with owner 0 (its bytes are added to the
\* free bytes, every free block has owner 0) and the other allocated blocks stay;
\* when it returns false the block list is unchanged.
C15_DeallocateByAddress ==
    [][mm_call'.op = "deallocate"
          => LET addr == mm_call'.address
                 Hit(i) == memory_blocks[i].address = addr /\ memory_blocks[i].is_allocated
                 hit == \E i \in 1..Len(memory_blocks) : Hit(i)
             IN  /\ mm_call'.ret = hit
                 /\ ~hit => memory_blocks' = memory_blocks
                 /\ hit =>
                       /\ \A j \in 1..Len(memory_blocks') :
                             memory_blocks'[j].is_allocated
                                \/ memory_blocks'[j].process_id = 0
                       /\ \E i \in 1..Len(memory_blocks) :
                             /\ Hit(i)
                             /\ AllocatedBlocks(memory_blocks') =
                                   AllocatedBlocks(RemoveAt(memory_blocks, i))
                             /\ get_free_memory(memory_blocks') =
                                   get_free_memory(memory_blocks) + memory_blocks[i].size]_vars

\* a process that owns nothing has just freed a block of the allocating process,
\* which still holds another block
C15_Witness ==
    /\ mm_call.op = "deallocate" /\ mm_call.ret
    /\ mm_call.process_id = 2
    /\ HasFreeBlock(memory_blocks)
    /\ get_allocated_memory(memory_blocks) > 0

\* C16: no two neighbouring blocks of the block list are both free.
C16_NoAdjacentFree ==
    \A i \in 1..(Len(memory_blocks) - 1) :
        memory_blocks[i].is_allocated \/ memory_blocks[i + 1].is_allocated

\* a deallocate has just merged the freed block with a free predecessor and a free
\* successor: the free block starts below the freed address and ends beyond an
\* allocated block's worth of bytes after it
C16_Witness ==
    /\ mm_call.op = "deallocate" /\ mm_call.ret
    /\ \E j \in 1..Len(memory_blocks) :
          /\ ~memory_blocks[j].is_allocated
          /\ memory_blocks[j].address < mm_call.address
          /\ mm_call.address + 1 < memory_blocks[j].address + memory_blocks[j].size
          /\ Len(memory_blocks) > 1

\* C17: allocate with size 0, with size above total_memory, or with no free block of
\* at least size bytes returns 0 and leaves every block unchanged.
C17_FailedAllocateChangesNothing ==
    [][(/\ mm_call'.op = "allocate"
        /\ \/ mm_call'.size = 0
           \/ mm_call'.size > TotalMemory
           \/ Candidates(memory_blocks, mm_call'.size) = {})
          => mm_call'.ret = 0 /\ memory_blocks' = memory_blocks]_vars

\* a request that fits total_memory has just failed on a layout that holds allocated
\* and free blocks
C17_Witness ==
    /\ mm_call.op = "allocate" /\ ~mm_call.found
    /\ mm_call.size > 0 /\ mm_call.size <= TotalMemory
    /\ HasFreeBlock(memory_blocks)
    /\ get_allocated_memory(memory_blocks) > 0

(***************************************************************************)
(* Claims about the Scheduler's dispatch order                             *)
(***************************************************************************)
Queued(queue) == {queue[i] : i \in 1..Len(queue)}

\* pid has the highest priority among the queued processes, and the earliest
\* arrival among those of its priority
PriorityFirst(procs, queue, pid) ==
    \A q \in Queued(queue) :
        LET a == get_process(procs, pid)
            b == get_process(procs, q)
        IN  \/ b.priority < a.priority
            \/ (b.priority = a.priority /\ a.arrival_time <= b.arrival_time)

\* pid has the smallest remaining time among the queued processes, and the
\* earliest arrival among those of its remaining time
ShortestFirst(procs, queue, pid) ==
    \A q \in Queued(queue) :
        LET a == get_process(procs, pid)
            b == get_process(procs, q)
        IN  \/ b.remaining_time > a.remaining_time
            \/ (b.remaining_time = a.remaining_time /\ a.arrival_time <= b.arrival_time)

Dispatched == sched_call.op = "get_next_process" /\ sched_call.ret # 0

\* C3: in PRIORITY mode get_next_process returns a queued process of the highest
\* priority, the earliest arrival among equal priorities.
C3_PriorityDispatch ==
    (Dispatched /\ algorithm = "PRIORITY")
        => PriorityFirst(processes, sched_call.queue_before, sched_call.ret)

\* C4: in SHORTEST_JOB_FIRST mode get_next_process returns a queued process with
\* the smallest remaining time, the earliest arrival among equal remaining times.
C4_ShortestJobDispatch ==
    (Dispatched /\ algorithm = "SHORTEST_JOB_FIRST")
        => ShortestFirst(processes, sched_call.queue_before, sched_call.ret)

\* C5: after set_algorithm changed the policy of a non-empty queue, the processes
\* get_next_process returns follow the new policy's order over the entries that
\* were already queued.
C5_SwitchReorders ==
    (Dispatched /\ switched)
        => CASE algorithm = "ROUND_ROBIN" ->
                    sched_call.ret = Head(sched_call.queue_before)
             [] algorithm = "PRIORITY" ->
                    PriorityFirst(processes, sched_call.queue_before, sched_call.ret)
             [] algorithm = "SHORTEST_JOB_FIRST" ->
                    ShortestFirst(processes, sched_call.queue_before, sched_call.ret)

C8_ArrivedProcessesAdmitted ==
    sim_call.op = "step"
        => \A i \in 1..Len(processes) :
              processes[i].arrival_time <= sim_call.time => processes[i].state # "NEW"

\* the step that has just ended set pid to BLOCKED and raised its interrupt
BlockedInLastStep(pid) ==
    sim_call.op = "step" /\ sim_call.blocked /\ sim_call.dispatched = pid

ValidTransitions ==
    {<<"NEW", "READY">>, <<"READY", "RUNNING">>, <<"RUNNING", "READY">>,
     <<"RUNNING", "BLOCKED">>, <<"RUNNING", "TERMINATED">>, <<"BLOCKED", "READY">>}

\* C10: every state change made by a Scheduler operation or by the loop is one of
\* the six valid transitions; a TERMINATED process never changes state again.
C10_OnlyValidTransitions == state_changes \subseteq ValidTransitions

(***************************************************************************)
(* Claims about a Process                                                  *)
(***************************************************************************)
\* C11: in every reachable state every process has remaining_time <= burst_time,
\* and its remaining_time is 0 exactly when its state is TERMINATED.
C11_RemainingZeroIffTerminated ==
    \A i \in 1..Len(processes) :
        /\ processes[i].remaining_time <= processes[i].burst_time
        /\ (processes[i].remaining_time = 0) <=> (processes[i].state = "TERMINATED")

\* what the claim says of one execute(q) call on process pid
ExecuteCountsDown(pid, q) ==
    LET before == get_process(processes, pid)
        after == get_process(processes', pid)
    IN  IF before.state = "RUNNING"
        THEN /\ after.remaining_time <= before.remaining_time
             /\ (sched_call'.ret = TRUE) <=> (before.remaining_time <= q)
             /\ IF before.remaining_time <= q
                THEN after.remaining_time = 0 /\ after.state = "TERMINATED"
                ELSE /\ after.remaining_time = before.remaining_time - q
                     /\ after.state = "RUNNING"
                     /\ sched_call'.ret = FALSE
             /\ after.remaining_time = 0 => after.state = "TERMINATED"
        ELSE after = before

\* C12: an execute(quantum) call on a RUNNING process never increases its
\* remaining_time; it returns true, sets remaining_time to 0 and the state to
\* TERMINATED exactly when remaining_time <= quantum, and otherwise subtracts the
\* quantum and returns false; a call on a process that is not RUNNING, a
\* TERMINATED one included, leaves it as it is; no call touches another process.
C12_ExecuteCountsDown ==
    [][sched_call'.op = "execute"
          => /\ ExecuteCountsDown(sched_call'.pid, sched_call'.quantum)
             /\ \A i \in 1..Len(processes) :
                   processes[i].pid # sched_call'.pid => processes'[i] = processes[i]
             /\ Len(processes') = Len(processes)]_vars

\* an execute call that completed a process, after one that did not
C12_Witness ==
    /\ sched_call.op = "execute"
    /\ state_changes = {<<"RUNNING", "TERMINATED">>}
    /\ LET p == get_process(processes, sched_call.pid)
       IN  /\ p.state = "TERMINATED"
           /\ p.remaining_time = 0
           /\ p.burst_time > sched_call.quantum

(***************************************************************************)
(* Claims about the ProcessManager                                         *)
(***************************************************************************)
\* C18: a create_process call that returns no handle leaves the registry as it
\* was: the same entries and the same next id.
C18_RejectedCreateLeavesRegistry ==
    [][(sched_call'.op = "create_process" /\ sched_call'.ret = 0)
          => (processes' = processes /\ next_pid' = next_pid)]_vars

\* the processes the schedule history refers to
Recorded(history) == {history[i].process : i \in 1..Len(history)}

\* C19: every process an entry of the ready queue or an event of the schedule
\* history refers to is a live entry of the ProcessManager.
C19_NoDanglingReference ==
    (Queued(ready_queue) \cup Recorded(schedule_history)) \subseteq LivePids(processes)

(***************************************************************************)
(* Claims about the HardwareSimulator                                      *)
(***************************************************************************)
Occurrences(s, x) == Cardinality({i \in 1..Len(s) : s[i] = x})

Elements(s) == {s[i] : i \in 1..Len(s)}

\* the part of the history that the step appended
Handled == SubSeq(interrupt_history', Len(interrupt_history) + 1, Len(interrupt_history'))

\* C20: process_interrupts(t) appends to the history exactly the pending
\* interrupts with timestamp <= t, each once and in non-decreasing timestamp
\* order, returns their number and leaves the interrupts with timestamp > t
\* pending; schedule_interrupt leaves the history alone, so an interrupt reaches
\* the history once at most.
C20_DueInterruptsHandledOnce ==
    [][/\ hw_call'.op = "process_interrupts" =>
            LET t == hw_call'.now
            IN  /\ Len(interrupt_history') >= Len(interrupt_history)
                /\ SubSeq(interrupt_history', 1, Len(interrupt_history)) = interrupt_history
                /\ \A x \in Elements(interrupt_queue) \cup Elements(Handled) :
                      /\ Occurrences(Handled, x) =
                            IF x.timestamp <= t THEN Occurrences(interrupt_queue, x) ELSE 0
                      /\ Occurrences(interrupt_queue', x) =
                            IF x.timestamp <= t THEN 0 ELSE Occurrences(interrupt_queue, x)
                /\ Elements(interrupt_queue') \subseteq Elements(interrupt_queue)
                /\ \A a, b \in 1..Len(Handled) :
                      a < b => Handled[a].timestamp <= Handled[b].timestamp
                /\ hw_call'.ret = Len(Handled)
       /\ hw_call'.op \in {"schedule_interrupt", "simulate_io_interrupt"} =>
            /\ interrupt_history' = interrupt_history
            /\ \A x \in Elements(interrupt_queue') :
                  Occurrences(interrupt_queue', x) =
                      Occurrences(interrupt_queue, x)
                          + (IF x = hw_call'.interrupt THEN 1 ELSE 0)
            /\ hw_call'.interrupt \in Elements(interrupt_queue')]_vars

\* a process_interrupts call that handled two interrupts and left a later one pending
C20_Witness ==
    /\ hw_call.op = "process_interrupts"
    /\ hw_call.ret >= 2
    /\ Len(interrupt_history) >= 2
    /\ interrupt_queue # <<>>
    /\ \A k \in 1..Len(interrupt_queue) : interrupt_queue[k].timestamp > hw_call.now

\* the entries of s with timestamp ts, in the order of s
AtTime(s, ts) == SelectSeq(s, LAMBDA x : x.timestamp = ts)

\* C21: pending interrupts with the same timestamp are handled, and appended to
\* the history, in the order in which they were scheduled.
C21_TiesInSchedulingOrder ==
    [][hw_call'.op = "process_interrupts"
          => \A ts \in 0..hw_call'.now :
                AtTime(Handled, ts) = AtTime(interrupt_queue, ts)]_vars

\* C22: no operation other than reset removes or alters an entry of the interrupt
\* history; clear_interrupts discards the pending interrupts only.
C22_HistoryImmutable ==
    [][hw_call'.op # "reset"
          => /\ Len(interrupt_history') >= Len(interrupt_history)
             /\ SubSeq(interrupt_history', 1, Len(interrupt_history)) = interrupt_history]_vars

\* what a process_interrupts step adds to the total: the fixed cost of each
\* interrupt it appended to the history
HandledCost ==
    LET cost == [ty \in InterruptTypes |->
                    CASE ty = "TIMER" -> 1 [] ty = "I_O" -> 3
                      [] ty = "SYSTEM_CALL" -> 5 [] ty = "HARDWARE_FAULT" -> 10]
        RECURSIVE Sum(_)
        Sum(k) == IF k = 0 THEN 0 ELSE cost[Handled[k].type] + Sum(k - 1)
    IN  Sum(Len(Handled))

\* C23 as stated: process_interrupts adds the fixed cost of every interrupt it
\* handled to the total overhead, reset sets it to 0, and no other operation
\* changes it.
C23_OverheadOnlyFromInterrupts ==
    [][CASE hw_call'.op = "process_interrupts" ->
                total_overhead' = total_overhead + HandledCost
         [] hw_call'.op = "reset" -> total_overhead' = 0
         [] OTHER -> total_overhead' = total_overhead]_vars

\* C23 as amended: simulate_hardware_context_switch adds its cost of 2 as well.
C23_OverheadAccounted ==
    [][CASE hw_call'.op = "process_interrupts" ->
                total_overhead' = total_overhead + HandledCost
         [] hw_call'.op = "reset" -> total_overhead' = 0
         [] hw_call'.op = "simulate_hardware_context_switch" ->
                total_overhead' = total_overhead + 2 /\ hw_call'.ret = 2
         [] OTHER -> total_overhead' = total_overhead]_vars

\* a process_interrupts call that handled interrupts of two types, after a hardware
\* context switch
C23_Witness ==
    /\ hw_call.op = "process_interrupts"
    /\ hw_call.ret >= 2
    /\ Len(interrupt_history) >= 2
    /\ interrupt_history[1].type # interrupt_history[2].type
    /\ total_overhead = Overhead(interrupt_history[1]) + Overhead(interrupt_history[2])
                            + HardwareContextSwitchOverhead

(***************************************************************************)
(* Claims about the ready queue                                            *)
(***************************************************************************)
\* C24: in ROUND_ROBIN mode add_to_ready_queue places a process behind every
\* process already queued, a re-enqueued one included, get_next_process returns
\* and removes the entry queued first, and nothing else touches the queue: the
\* dispatch order is the order of the add_to_ready_queue calls.
C24_RoundRobinFifo ==
    [][algorithm = "ROUND_ROBIN"
          => /\ (sched_call'.op = "add_to_ready_queue" /\ sched_call'.ret # 0)
                    => ready_queue' = Append(ready_queue, sched_call'.ret)
             /\ (sched_call'.op = "get_next_process" /\ ready_queue # <<>>)
                    => /\ sched_call'.ret = Head(ready_queue)
                       /\ ready_queue' = Tail(ready_queue)
             /\ sched_call'.op \notin {"add_to_ready_queue", "get_next_process"}
                    => ready_queue' = ready_queue]_vars

\* process q is dispatched ahead of process p, which ran and was re-enqueued while
\* q was waiting
C24_Witness ==
    /\ algorithm = "ROUND_ROBIN"
    /\ sched_call.op = "get_next_process"
    /\ Len(sched_call.queue_before) = 2
    /\ LET q == sched_call.queue_before[1]
           p == sched_call.queue_before[2]
           n == Len(schedule_history)
       IN  /\ p # q
           /\ sched_call.ret = q
           /\ ready_queue = <<p>>
           /\ \E i, j \in 1..n :
                 /\ i < j /\ j < n
                 /\ schedule_history[i].process = p
                 /\ schedule_history[i].new_state = "RUNNING"
                 /\ schedule_history[j].process = p
                 /\ schedule_history[j].new_state = "READY"

\* C25: get_next_process on an empty queue returns nothing and changes no
\* process, nor the history, nor the queue; on a non-empty queue it removes one
\* entry, the returned process is RUNNING, and one event with new state RUNNING
\* is appended to the history.
C25_GetNextProcessEffect ==
    [][sched_call'.op = "get_next_process"
          => IF ready_queue = <<>>
             THEN /\ sched_call'.ret = 0
                  /\ processes' = processes
                  /\ schedule_history' = schedule_history
                  /\ ready_queue' = ready_queue
             ELSE /\ Len(ready_queue') = Len(ready_queue) - 1
                  /\ sched_call'.ret \in LivePids(processes')
                  /\ get_process(processes', sched_call'.ret).state = "RUNNING"
                  /\ Len(schedule_history') = Len(schedule_history) + 1
                  /\ SubSeq(schedule_history', 1, Len(schedule_history)) = schedule_history
                  /\ schedule_history'[Len(schedule_history')].new_state = "RUNNING"
                  /\ schedule_history'[Len(schedule_history')].process = sched_call'.ret]_vars

\* a dispatch from a queue of two entries
C25_Witness ==
    /\ sched_call.op = "get_next_process"
    /\ sched_call.ret # 0
    /\ Len(sched_call.queue_before) = 2
    /\ Len(ready_queue) = 1
    /\ get_process(processes, sched_call.ret).state = "RUNNING"
    /\ schedule_history[Len(schedule_history)].new_state = "RUNNING"

\* C26: set_algorithm leaves every process queued as often as before and queues
\* no other, and leaves the processes, the schedule history and the
\* context-switch counter unchanged.
C26_SetAlgorithmKeepsQueue ==
    [][sched_call'.op = "set_algorithm"
          => /\ \A pid \in Elements(ready_queue) \cup Elements(ready_queue') :
                   Occurrences(ready_queue', pid) = Occurrences(ready_queue, pid)
             /\ processes' = processes
             /\ schedule_history' = schedule_history
             /\ context_switches' = context_switches]_vars

\* the policy was changed while a process was queued twice next to another one
C26_Witness ==
    /\ sched_call.op = "set_algorithm"
    /\ sched_call.ret
    /\ algorithm # "ROUND_ROBIN"
    /\ Len(ready_queue) = 3
    /\ Cardinality(Elements(ready_queue)) = 2

\* C27: a simulate_context_switch(from, to, t) call returns 1, leaves to (if
\* present) RUNNING and from (if present and another process than to) READY, and
\* adds exactly 1 to the context-switch counter; reset sets the counter to 0 and
\* no other operation changes it, so that it counts the calls since construction
\* or the last reset.
C27_ContextSwitchCounted ==
    [][CASE sched_call'.op = "simulate_context_switch" ->
                LET from == sched_call'.from
                    to == sched_call'.to
                IN  /\ sched_call'.ret = 1
                    /\ context_switches' = context_switches + 1
                    /\ to # 0 => get_process(processes', to).state = "RUNNING"
                    /\ (from # 0 /\ from # to)
                          => get_process(processes', from).state = "READY"
                    /\ \A i \in 1..Len(processes) :
                          processes[i].pid \notin {from, to} => processes'[i] = processes[i]
         [] sched_call'.op = "reset" -> context_switches' = 0
         [] OTHER -> context_switches' = context_switches]_vars

\* the second switch counted, from one process to another
C27_Witness ==
    /\ sched_call.op = "simulate_context_switch"
    /\ sched_call.from # 0
    /\ sched_call.to # 0
    /\ sched_call.from # sched_call.to
    /\ context_switches = 2
    /\ get_process(processes, sched_call.from).state = "READY"
    /\ get_process(processes, sched_call.to).state = "RUNNING"

\* C28: execute(quantum) on a process that is not RUNNING fails with an error and
\* leaves its remaining_time and its state, and every other process, unchanged.
C28_ExecuteNeedsRunning ==
    [][(/\ sched_call'.op = "execute"
        /\ get_process(processes, sched_call'.pid).state # "RUNNING")
          => /\ sched_call'.threw
             /\ processes' = processes]_vars

\* an execute call on a BLOCKED process with time remaining
C28_Witness ==
    /\ sched_call.op = "execute"
    /\ sched_call.threw
    /\ get_process(processes, sched_call.pid).state = "BLOCKED"
    /\ get_process(processes, sched_call.pid).remaining_time > 0

C31_AverageTurnaround ==
    LET done == get_processes_by_state(processes, "TERMINATED")
    IN  calculate_average_turnaround_time(processes)
          = [terms |-> [i \in 1..Len(done) |->
                           done[i].completion_time - done[i].arrival_time],
             count |-> Len(done)]

\* C32: cleanup_terminated removes exactly the entries whose state is TERMINATED,
\* returns their number and keeps the other entries in their order; afterwards
\* get_process finds no removed id and finds every kept id with the entry it had.
TerminatedPids(procs) == {procs[i].pid : i \in {j \in 1..Len(procs) : procs[j].state = "TERMINATED"}}

C32_CleanupRemovesTerminated ==
    [][sched_call'.op = "cleanup_terminated"
          => /\ LivePids(processes') = LivePids(processes) \ TerminatedPids(processes)
             /\ sched_call'.ret = Cardinality(TerminatedPids(processes))
             /\ Len(processes') = Cardinality(LivePids(processes'))
             /\ \A p \in LivePids(processes') :
                   get_process(processes', p) = get_process(processes, p)
             /\ \A p \in LivePids(processes'), q \in LivePids(processes') :
                   IndexOf(processes, p) < IndexOf(processes, q)
                     => IndexOf(processes', p) < IndexOf(processes', q)]_vars

\* a cleanup that removed the entry between two others
C32_Witness ==
    /\ sched_call.op = "cleanup_terminated"
    /\ sched_call.ret = 1
    /\ Len(processes) = 2
    /\ processes[1].pid + 1 < processes[2].pid

\* C33: between two resets of the registry every created process receives an id
\* greater than every id assigned before it, no id is assigned twice, also after
\* its holder was destroyed or cleaned up, and no two live entries share an id.
\* next_pid is above every id assigned since the reset: only reset lowers it, a
\* new id is at least next_pid and is below next_pid afterwards.
C33_IdsNeverReused ==
    [][/\ sched_call'.op # "process_manager_reset" => next_pid' >= next_pid
       /\ (sched_call'.op = "create_process" /\ next_pid' # next_pid /\ sched_call'.ret # 0)
             => /\ sched_call'.ret >= next_pid
                /\ sched_call'.ret < next_pid'
                /\ processes' = Append(processes, get_process(processes', sched_call'.ret))
       /\ \A p \in LivePids(processes') : p < next_pid'
       /\ Cardinality(LivePids(processes')) = Len(processes')]_vars

\* the last id is handed out after the holders of earlier ids have been removed
C33_Witness ==
    /\ sched_call.op = "create_process"
    /\ sched_call.ret = MaxProcs + 1
    /\ LivePids(processes) = {MaxProcs + 1}

C34_SuccessDiffersFromFailure ==
    (mm_call.op = "allocate" /\ mm_call.found) => mm_call.ret # 0

\* C36: a block allocated to a process is freed only by a deallocate call with
\* that process's id: deallocate(q, addr) leaves the allocated block at addr as
\* it is when q is not its owner.
C36_OnlyOwnerFrees ==
    [][mm_call'.op = "deallocate"
          => \A i \in 1..Len(memory_blocks) :
                (/\ memory_blocks[i].is_allocated
                 /\ memory_blocks[i].address = mm_call'.address
                 /\ memory_blocks[i].process_id # mm_call'.process_id)
                   => \E j \in 1..Len(memory_blocks') :
                         memory_blocks'[j] = memory_blocks[i]]_vars

(***************************************************************************)
(* Claims about the recorded transitions and the running process           *)
(***************************************************************************)
\* C37: for every ScheduleEvent that add_to_ready_queue, get_next_process,
\* remove_from_ready_queue, clear_ready_queue or simulate_context_switch appends,
\* old_state is the state the process had immediately before and new_state the
\* state it has immediately after.
RecordingOperations ==
    {"add_to_ready_queue", "get_next_process", "remove_from_ready_queue",
     "clear_ready_queue", "simulate_context_switch"}

C37_EventsRecordActualStates ==
    [][(/\ sched_call'.op \in RecordingOperations
        /\ Len(schedule_history') > Len(schedule_history))
          => LET appended == SubSeq(schedule_history', Len(schedule_history) + 1,
                                    Len(schedule_history'))
             IN  \A p \in {appended[k].process : k \in 1..Len(appended)} :
                    LET ev == SelectSeq(appended, LAMBDA e : e.process = p)
                    IN  /\ ev[1].old_state = get_process(processes, p).state
                        /\ ev[Len(ev)].new_state = get_process(processes', p).state
                        /\ \A k \in 1..(Len(ev) - 1) :
                              ev[k + 1].old_state = ev[k].new_state]_vars

\* C38: at most one process is in state RUNNING at any time.
C38_AtMostOneRunning ==
    Len(get_processes_by_state(processes, "RUNNING")) <= 1

\* C39: each process appears at most once in the ready queue, so the size of the
\* queue never exceeds the number of READY processes.
C39_NoDuplicateQueueEntries ==
    /\ \A i \in 1..Len(ready_queue), j \in 1..Len(ready_queue) :
          ready_queue[i] = ready_queue[j] => i = j
    /\ Len(ready_queue) <= Len(get_processes_by_state(processes, "READY"))

(***************************************************************************)
(* Claims about the reported utilization                                   *)
(***************************************************************************)
\* C40: the cpu_utilization that calculate_metrics returns is the fraction of the
\* window in which the CPU was busy, (elapsed - idle) / elapsed: it is at most 1,
\* and it is below 1 when a step of the run, here the last one, dispatched no
\* process.
C40_UtilizationCountsIdleTime ==
    [][sim_call'.op = "end"
          => LET u == sim_call'.ret.cpu_utilization
             IN  /\ u.num <= u.den
                 /\ (sim_call.op = "step" /\ sim_call.dispatched = 0) => u.num < u.den]_vars

====
